---- MODULE Spec2Model ----
(***************************************************************************)
(* Dancing-links exact cover (jw013/dlx): the linked matrix built by       *)
(* bcsr_to_dlx, the cover/uncover primitives, row preselection and the     *)
(* recursive search dlx_exact_cover, unrolled into an explicit call stack. *)
(***************************************************************************)
EXTENDS Integers, Sequences, FiniteSets, TLC

\* ------------------------------------------------------------------------
\* Bounds of the explored inputs
\* ------------------------------------------------------------------------
\* search: matrices of at most MaxR rows, MaxC columns and MaxCells cells,
\* *pnsol at most MaxSol
MaxR == 4
MaxC == 3
MaxCells == 12
MaxSol == 5
\* preselection: matrices of at most MaxForceR rows and MaxForceC columns
\* with at most MaxForceOnes ones in a row, at most MaxCalls calls
MaxForceR == 4
MaxForceC == 3
MaxForceOnes == 2
MaxCalls == 3
\* search after a preselection: *pnsol at most MaxForcedSol
MaxForcedSol == 2
\* loader: texts of at most MaxLen bytes, and MaxPad - 1 or MaxPad empty
\* lines followed by at most one byte
MaxLen == 4
MaxPad == 32
\* growable array on its own: initial capacity 1 .. MaxCap, at most
\* MaxAppends appends of values 0 .. MaxVal
MaxCap == 20
MaxAppends == 6
MaxVal == 1
\* header row on its own: 0 .. MaxHdr headers
MaxHdr == 4
\* preselection and search mixed: matrices of at most MaxAllR rows,
\* MaxAllC columns and MaxAllCells cells
MaxAllR == 3
MaxAllC == 3
MaxAllCells == 6

\* termination: matrices up to MaxLiveR x MaxLiveC, *pnsol up to MaxLiveSol
MaxLiveR == 3
MaxLiveC == 3
MaxLiveSol == 3

\* the loader's arrays: appends to one array
MaxLoaderAppends == 400

\* ------------------------------------------------------------------------
\* Addresses.  NULL, &dlx->root, dlx->headers + c and dlx->nodes + j are
\* kept apart by sign: headers are negative, data nodes positive.
\* ------------------------------------------------------------------------
NULL == 0
root == -1
headers(c) == -(c + 2)
nodes(j) == j + 1
\* the address dlx->row_off + i, which a node's row_id holds
row_off_at(i) == 100 + i

VARIABLES
    rows,       \* the input matrix: rows[i] = set of columns holding a '1'
    dlx,        \* struct dlx_matrix and every node it owns
    pc,         \* "idle" | "run" | "done" | "hung"; "raw" | "made" around dlx_make_header_row alone
    stack,      \* activation records of dlx_exact_cover, outermost first
    pnsol,      \* *pnsol
    solution,   \* the caller's struct dlx_srow array
    retval,     \* value returned by the top-level dlx_exact_cover
    M0,         \* history: *pnsol at the top-level call
    pre,        \* history: dlx at the start of the public call in progress / last made
    leaves,     \* history: row sets of the leaf successes of the current call
    prev,       \* history: outcome of the previous completed dlx_exact_cover call
    forced,     \* history: nodes given to successful dlx_force_row calls, not yet unselected
    lifo,       \* history: every successful dlx_unselect_row so far named the row
                \* of the latest dlx_force_row not yet unselected (dlx.h:144-145)
    last,       \* history: the last dlx_force_row / dlx_unselect_row call, its result,
                \* and forced and lifo as they were before the call (fb, lb)
    ncalls,     \* number of dlx_force_row / dlx_unselect_row calls made
    stream,     \* the input of dlx_read_matrix: text, read-error position, failing allocation
    loaded,     \* what dlx_read_matrix returned and left behind; NotRead before the call
    darray      \* a size_t_darray used on its own, with the values appended to it

vars == <<rows, dlx, pc, stack, pnsol, solution, retval, M0, pre, leaves,
          prev, forced, lifo, last, ncalls, stream, loaded, darray>>

\* ------------------------------------------------------------------------
\* Link primitives (dlx.c)
\* ------------------------------------------------------------------------
remove_lr(m, n) ==
    [m EXCEPT !.right[m.left[n]] = m.right[n],
              !.left[m.right[n]] = m.left[n]]

remove_ud(m, n) ==
    [m EXCEPT !.down[m.up[n]] = m.down[n],
              !.up[m.down[n]] = m.up[n]]

insert_lr(m, n) ==
    [m EXCEPT !.right[m.left[n]] = n,
              !.left[m.right[n]] = n]

insert_ud(m, n) ==
    [m EXCEPT !.down[m.up[n]] = n,
              !.up[m.down[n]] = n]

is_removed_ud(m, n) == m.down[m.up[n]] # n

\* variant that inserts the node at the top of the column
append_node_to_column_top(m, n, c) ==
    LET m1 == [m EXCEPT !.header[n] = c,
                        !.up[n] = c,
                        !.down[n] = m.down[c]]
        m2 == insert_ud(m1, n)
    IN  [m2 EXCEPT !.node_count[c] = @ + 1]

append_node_to_column(m, n, c) ==
    LET m1 == [m EXCEPT !.header[n] = c,
                        !.up[n] = m.up[c],
                        !.down[n] = c]
        m2 == insert_ud(m1, n)
    IN  [m2 EXCEPT !.node_count[c] = @ + 1]

\* ------------------------------------------------------------------------
\* Construction (dlx.c, bcsr_to_dlx of the reader)
\* ------------------------------------------------------------------------

\* variant that does not point the header's up link at the header
init_header_noup(m, h, l, r) ==
    [m EXCEPT !.left[h] = l, !.right[h] = r, !.down[h] = h,
              !.header[h] = h, !.node_count[h] = 1]

\* header h linked between l and r, empty column, count 1
init_header(m, h, l, r) ==
    [m EXCEPT !.left[h] = l, !.right[h] = r, !.up[h] = h, !.down[h] = h,
              !.header[h] = h, !.node_count[h] = 1]

RECURSIVE make_header_loop(_, _, _)
make_header_loop(m, i, n) ==
    IF i < n - 1
    THEN make_header_loop(init_header(m, headers(i), headers(i - 1), headers(i + 1)),
                          i + 1, n)
    ELSE m

dlx_make_header_row(m, n) ==
    LET r0 == [m EXCEPT !.up[root] = NULL, !.down[root] = NULL,
                        !.header[root] = NULL, !.node_count[root] = 1]
    IN  IF n < 1
        THEN [r0 EXCEPT !.left[root] = root, !.right[root] = root]
        ELSE LET r1 == [r0 EXCEPT !.left[root] = headers(n - 1),
                                  !.right[root] = headers(0)]
             IN  IF n = 1
                 THEN init_header(r1, headers(0), root, root)
                 ELSE LET f == init_header(r1, headers(0), root, headers(1))
                          g == make_header_loop(f, 1, n)
                      IN  init_header(g, headers(n - 1), headers(n - 2), root)

RECURSIVE make_row_loop(_, _, _, _, _)
make_row_loop(m, first, rid, i, n) ==
    IF i < n - 1
    THEN make_row_loop([m EXCEPT !.left[nodes(first + i)] = nodes(first + i - 1),
                                 !.right[nodes(first + i)] = nodes(first + i + 1),
                                 !.row_id[nodes(first + i)] = rid],
                       first, rid, i + 1, n)
    ELSE m

\* variant that does not close the circle of a longer row
dlx_make_row_open(m, first, rid, n) ==
    IF n < 1 THEN m
    ELSE IF n = 1
    THEN [m EXCEPT !.left[nodes(first)] = nodes(first),
                   !.right[nodes(first)] = nodes(first),
                   !.row_id[nodes(first)] = rid]
    ELSE LET f == [m EXCEPT !.right[nodes(first)] = nodes(first + 1),
                            !.row_id[nodes(first)] = rid]
             g == make_row_loop(f, first, rid, 1, n)
         IN  [g EXCEPT !.left[nodes(first + n - 1)] = nodes(first + n - 2),
                       !.row_id[nodes(first + n - 1)] = rid]

\* variant that leaves the row_id of the last node of a longer row unset
dlx_make_row_lastnoid(m, first, rid, n) ==
    IF n < 1 THEN m
    ELSE IF n = 1
    THEN [m EXCEPT !.left[nodes(first)] = nodes(first),
                   !.right[nodes(first)] = nodes(first),
                   !.row_id[nodes(first)] = rid]
    ELSE LET f == [m EXCEPT !.left[nodes(first)] = nodes(first + n - 1),
                            !.right[nodes(first)] = nodes(first + 1),
                            !.row_id[nodes(first)] = rid]
             g == make_row_loop(f, first, rid, 1, n)
         IN  [g EXCEPT !.left[nodes(first + n - 1)] = nodes(first + n - 2),
                       !.right[nodes(first + n - 1)] = nodes(first)]

\* the row is nodes[first .. first+n-1]; rid is the address of its row_off entry
dlx_make_row(m, first, rid, n) ==
    IF n < 1 THEN m
    ELSE IF n = 1
    THEN [m EXCEPT !.left[nodes(first)] = nodes(first),
                   !.right[nodes(first)] = nodes(first),
                   !.row_id[nodes(first)] = rid]
    ELSE LET f == [m EXCEPT !.left[nodes(first)] = nodes(first + n - 1),
                            !.right[nodes(first)] = nodes(first + 1),
                            !.row_id[nodes(first)] = rid]
             g == make_row_loop(f, first, rid, 1, n)
         IN  [g EXCEPT !.left[nodes(first + n - 1)] = nodes(first + n - 2),
                       !.right[nodes(first + n - 1)] = nodes(first),
                       !.row_id[nodes(first + n - 1)] = rid]

\* pheaders is the 0-based array of header addresses parallel to the row
RECURSIVE dlx_add_row(_, _, _, _, _)
dlx_add_row(m, first, pheaders, i, n) ==
    IF i < n
    THEN dlx_add_row(append_node_to_column(m, nodes(first + i), pheaders[i]),
                     first, pheaders, i + 1, n)
    ELSE m

\* Ascending sequence of the elements of a finite set of naturals
RECURSIVE SortedSeq(_)
SortedSeq(S) ==
    IF S = {} THEN <<>>
    ELSE LET x == CHOOSE y \in S : \A z \in S : y <= z
         IN  <<x>> \o SortedSeq(S \ {x})

RECURSIVE FlatRows(_, _)
FlatRows(rs, i) ==
    IF i \notin DOMAIN rs THEN <<>>
    ELSE SortedSeq(rs[i]) \o FlatRows(rs, i + 1)

RECURSIVE OnesBefore(_, _)
OnesBefore(rs, i) ==
    IF i = 0 THEN 0 ELSE OnesBefore(rs, i - 1) + Cardinality(rs[i - 1])

\* struct binary_csr_matrix for the matrix whose row i has its ones in rs[i]
bcsr(rs) ==
    LET R == Cardinality(DOMAIN rs)
        flat == FlatRows(rs, 0)
    IN  [row_ptr_size |-> R + 1,
         col_ind |-> [j \in 0 .. Len(flat) - 1 |-> flat[j + 1]],
         row_ptr |-> [i \in 0 .. R |-> OnesBefore(rs, i)]]

\* memory as calloc leaves it: every pointer NULL, every count 0
Calloc(ncols, nnodes) ==
    LET H == {headers(c) : c \in 0 .. ncols - 1}
        N == {nodes(j) : j \in 0 .. nnodes - 1}
        A == {root} \cup H \cup N
    IN  [left |-> [x \in A |-> NULL], right |-> [x \in A |-> NULL],
         up |-> [x \in A |-> NULL], down |-> [x \in A |-> NULL],
         header |-> [x \in A |-> NULL],
         row_id |-> [x \in H \cup N |-> NULL],
         node_count |-> [x \in {root} \cup H |-> 0],
         id |-> [x \in H |-> NULL],
         row_off |-> << >>, n_col |-> 0, n_row |-> 0]

RECURSIVE bcsr_rows(_, _, _)
bcsr_rows(m, csr, i) ==
    IF i < csr.row_ptr_size - 1 /\ i \in DOMAIN m.row_off
    THEN LET ri_start == csr.row_ptr[i]
             ri_end == csr.row_ptr[i + 1]
             pheaders == [j \in 0 .. ri_end - ri_start - 1 |->
                             headers(csr.col_ind[ri_start + j])]
             m1 == dlx_make_row(m, ri_start, row_off_at(i), ri_end - ri_start)
             m2 == dlx_add_row(m1, ri_start, pheaders, 0, ri_end - ri_start)
             m3 == [m2 EXCEPT !.row_off = [k \in 0 .. i + 1 |->
                                   IF k = i + 1 THEN ri_end ELSE m2.row_off[k]]]
         IN  bcsr_rows(m3, csr, i + 1)
    ELSE m

bcsr_to_dlx(csr, ncols) ==
    LET m0 == Calloc(ncols, csr.row_ptr[csr.row_ptr_size - 1])
        m1 == dlx_make_header_row(m0, ncols)
        m2 == [m1 EXCEPT !.row_off = [k \in {0} |-> 0]]
        m3 == bcsr_rows(m2, csr, 0)
    IN  [m3 EXCEPT !.n_col = ncols, !.n_row = csr.row_ptr_size - 1]

\* ------------------------------------------------------------------------
\* cover / uncover (dlx.c).  A size_t count is held as its signed residue
\* modulo 2^64 (SIZE_MAX is -1), so -- and ++ are exact and the unsigned
\* order is ult.  A loop that does not come back to its start within Fuel
\* steps never ends: the result is then Hang.
\* ------------------------------------------------------------------------
Hang == [hung |-> TRUE]
IsHung(m) == "hung" \in DOMAIN m
Fuel(m) == Cardinality(DOMAIN m.left) * Cardinality(DOMAIN m.left) + 1

ult(a, b) == IF (a < 0) = (b < 0) THEN a < b ELSE b < 0

\* cover_row that leaves the other nodes of the row in their columns
RECURSIVE cover_row_keep(_, _, _, _)
cover_row_keep(m, i, j, fuel) ==
    LET jn == m.right[j]
    IN  IF jn = i THEN m
        ELSE IF fuel = 0 THEN Hang
        ELSE cover_row_keep([m EXCEPT !.node_count[m.header[jn]] = @ - 1],
                            i, jn, fuel - 1)

RECURSIVE cover_row(_, _, _, _)
cover_row(m, i, j, fuel) ==
    LET jn == m.right[j]
    IN  IF jn = i THEN m
        ELSE IF fuel = 0 THEN Hang
        ELSE LET m1 == remove_ud(m, jn)
                 m2 == [m1 EXCEPT !.node_count[m.header[jn]] = @ - 1]
             IN  cover_row(m2, i, jn, fuel - 1)

RECURSIVE cover_rows(_, _, _, _)
cover_rows(m, h, i, fuel) ==
    LET inx == m.down[i]
    IN  IF inx = h THEN m
        ELSE IF fuel = 0 THEN Hang
        ELSE LET m1 == cover_row(m, inx, inx, Fuel(m))
             IN  IF IsHung(m1) THEN Hang ELSE cover_rows(m1, h, inx, fuel - 1)

cover(m, h) == cover_rows(remove_lr(m, h), h, h, Fuel(m))

\* uncover_row that restores the counts but not the links
RECURSIVE uncover_row_lost(_, _, _, _)
uncover_row_lost(m, i, j, fuel) ==
    LET jn == m.left[j]
    IN  IF jn = i THEN m
        ELSE IF fuel = 0 THEN Hang
        ELSE uncover_row_lost([m EXCEPT !.node_count[m.header[jn]] = @ + 1],
                              i, jn, fuel - 1)

RECURSIVE uncover_row(_, _, _, _)
uncover_row(m, i, j, fuel) ==
    LET jn == m.left[j]
    IN  IF jn = i THEN m
        ELSE IF fuel = 0 THEN Hang
        ELSE LET m1 == [m EXCEPT !.node_count[m.header[jn]] = @ + 1]
                 m2 == insert_ud(m1, jn)
             IN  uncover_row(m2, i, jn, fuel - 1)

RECURSIVE uncover_rows(_, _, _, _)
uncover_rows(m, h, i, fuel) ==
    LET inx == m.up[i]
    IN  IF inx = h THEN m
        ELSE IF fuel = 0 THEN Hang
        ELSE LET m1 == uncover_row(m, inx, inx, Fuel(m))
             IN  IF IsHung(m1) THEN Hang ELSE uncover_rows(m1, h, inx, fuel - 1)

\* uncover that forgets to put the header back into the header list
uncover_norelink(m, h) == uncover_rows(m, h, h, Fuel(m))

uncover(m, h) ==
    LET m1 == uncover_rows(m, h, h, Fuel(m))
    IN  IF IsHung(m1) THEN Hang ELSE insert_lr(m1, h)

RECURSIVE cover_others(_, _, _, _)
cover_others(m, i, j, fuel) ==
    LET jn == m.right[j]
    IN  IF jn = i THEN m
        ELSE IF fuel = 0 THEN Hang
        ELSE LET m1 == cover(m, m.header[jn])
             IN  IF IsHung(m1) THEN Hang ELSE cover_others(m1, i, jn, fuel - 1)

cover_other_columns(m, i) == cover_others(m, i, i, Fuel(m))

RECURSIVE uncover_others(_, _, _, _)
uncover_others(m, i, j, fuel) ==
    LET jn == m.left[j]
    IN  IF jn = i THEN m
        ELSE IF fuel = 0 THEN Hang
        ELSE LET m1 == uncover(m, m.header[jn])
             IN  IF IsHung(m1) THEN Hang ELSE uncover_others(m1, i, jn, fuel - 1)

uncover_other_columns(m, i) == uncover_others(m, i, i, Fuel(m))

\* the walk of hnode_min_count: h is the header last visited, min the best so far
RECURSIVE min_count_walk(_, _, _, _)
min_count_walk(m, h, min, fuel) ==
    LET hn == m.right[h]
    IN  IF hn = root THEN [hung |-> FALSE, min |-> min]
        ELSE IF fuel = 0 THEN [hung |-> TRUE, min |-> NULL]
        ELSE IF min = NULL \/ ult(m.node_count[hn], m.node_count[min])
        THEN min_count_walk(m, hn, hn, fuel - 1)
        ELSE min_count_walk(m, hn, min, fuel - 1)

\* variant that takes the first live column whatever its count
hnode_first(m) == [hung |-> FALSE, min |-> m.right[root]]

hnode_min_count(m) == min_count_walk(m, root, NULL, Fuel(m))

\* ------------------------------------------------------------------------
\* State after construction
\* ------------------------------------------------------------------------
NoCall == [op |-> "none", r |-> NULL, ret |-> 0, fb |-> << >>, lb |-> TRUE]
NoResult == [M |-> 0, ret |-> 0, pn |-> 0, rows |-> {}]
EntryFrame(k) == [k |-> k, col |-> NULL, i |-> NULL, n |-> 0, at |-> "entry"]
NotRead == [phase |-> "unread"]
NoArray == [cap |-> 0, array |-> [none |-> TRUE], vals |-> << >>, calls |-> 0,
            oob |-> FALSE]
NoStream == [text |-> << >>, err |-> 0, fail |-> "none"]

NoSrow == [row_node |-> NULL, id |-> NULL, n_choices |-> 0]

\* dlx_read_matrix has delivered the matrix rs over C columns; the caller
\* holds a zeroed solution array of n_row records and has called nothing
Loaded(rs, C) ==
    /\ rows = rs
    /\ dlx = bcsr_to_dlx(bcsr(rs), C)
    /\ pre = bcsr_to_dlx(bcsr(rs), C)
    /\ solution = [k \in DOMAIN rs |-> NoSrow]
    /\ pc = "idle"
    /\ stack = << >>
    /\ pnsol = 0
    /\ retval = 0
    /\ M0 = 0
    /\ leaves = << >>
    /\ prev = NoResult
    /\ forced = << >>
    /\ lifo = TRUE
    /\ last = NoCall
    /\ ncalls = 0
    /\ loaded = NotRead

\* The matrices dlx_read_matrix can deliver within the bounds: R rows over
\* C columns, with C = 0 when there is no row.
Init ==
    \E R \in 0 .. MaxR, C \in 0 .. MaxC :
        /\ R * C <= MaxCells
        /\ R = 0 => C = 0
        /\ \E rs \in [0 .. R - 1 -> SUBSET (0 .. C - 1)] : Loaded(rs, C)
        /\ stream = NoStream /\ darray = NoArray

DataNodes == {x \in DOMAIN dlx.left : x > 0}

\* row index of a data node, as the caller decodes it from dlx_row_id
RowOf(m, x) == m.row_id[x] - row_off_at(0)

\* ------------------------------------------------------------------------
\* dlx_exact_cover, one activation record per recursion level
\* ------------------------------------------------------------------------
Top == stack[Len(stack)]
Below == SubSeq(stack, 1, Len(stack) - 1)
SetTop(f) == Below \o <<f>>

\* rows selected by the levels below the top one
Chosen == {RowOf(dlx, stack[d].i) : d \in 1 .. Len(stack) - 1}

\* the top activation returns n to its caller
Return(n) ==
    IF Len(stack) = 1
    THEN /\ stack' = << >>
         /\ retval' = n
         /\ pc' = "done"
    ELSE /\ stack' = SubSeq(stack, 1, Len(stack) - 2) \o
                     <<[stack[Len(stack) - 1] EXCEPT !.n = n, !.at = "after"]>>
         /\ UNCHANGED <<retval, pc>>

Stuck ==
    /\ pc' = "hung"
    /\ UNCHANGED <<dlx, stack, pnsol, solution, retval, leaves>>

\* the test driver's call: a zeroed array of n_row records, k = 0.  A
\* caller that calls again asks for the next solution.
Call(M) ==
    /\ pc = "idle"
    /\ prev.M = 0 \/ M = prev.M + 1
    /\ pc' = "run"
    /\ stack' = <<EntryFrame(0)>>
    /\ pnsol' = M
    /\ M0' = M
    /\ pre' = dlx
    /\ leaves' = << >>
    /\ solution' = [k \in 0 .. dlx.n_row - 1 |-> NoSrow]
    /\ UNCHANGED <<rows, dlx, retval, prev, forced, lifo, last, ncalls, stream, loaded, darray>>

\* variant that returns k without counting the solution
Leaf_nocount ==
    /\ pc = "run" /\ Top.at = "entry"
    /\ dlx.right[root] = root
    /\ leaves' = Append(leaves, Chosen)
    /\ Return(Top.k)
    /\ UNCHANGED <<rows, dlx, solution, M0, pre, prev, forced, lifo, last, ncalls, stream, loaded, darray>>
    /\ UNCHANGED pnsol

\* root->right == root: (*pnsol)--; return k
Leaf ==
    /\ pc = "run" /\ Top.at = "entry"
    /\ dlx.right[root] = root
    /\ pnsol' = pnsol - 1
    /\ leaves' = Append(leaves, Chosen)
    /\ Return(Top.k)
    /\ UNCHANGED <<rows, dlx, solution, M0, pre, prev, forced, lifo, last, ncalls, stream, loaded, darray>>

\* col = hnode_min_count(root); cover(col); solution[k] = ...; i = col
Branch ==
    /\ pc = "run" /\ Top.at = "entry"
    /\ dlx.right[root] # root
    /\ LET w == hnode_min_count(dlx)
           m1 == IF w.hung THEN Hang ELSE cover(dlx, w.min)
       IN  IF IsHung(m1) \/ Top.k \notin DOMAIN solution
           THEN Stuck
           ELSE /\ dlx' = m1
                /\ solution' = [solution EXCEPT ![Top.k].id = m1.id[w.min],
                                  ![Top.k].n_choices = m1.node_count[w.min]]
                /\ stack' = SetTop([Top EXCEPT !.col = w.min, !.i = w.min,
                                               !.n = 0, !.at = "loop"])
                /\ UNCHANGED <<pc, pnsol, retval, leaves>>
    /\ UNCHANGED <<rows, M0, pre, prev, forced, lifo, last, ncalls, stream, loaded, darray>>

\* Try that recurses without covering the other columns of the row
Try_nocover ==
    /\ pc = "run" /\ Top.at = "loop"
    /\ dlx.down[Top.i] # Top.col
    /\ stack' = SetTop([Top EXCEPT !.i = dlx.down[Top.i]]) \o <<EntryFrame(Top.k + 1)>>
    /\ UNCHANGED <<dlx, pc, pnsol, solution, retval, leaves>>
    /\ UNCHANGED <<rows, M0, pre, prev, forced, lifo, last, ncalls, stream, loaded, darray>>

\* (i = i->down) != col: cover_other_columns(i); recurse with k + 1
Try ==
    /\ pc = "run" /\ Top.at = "loop"
    /\ dlx.down[Top.i] # Top.col
    /\ LET i == dlx.down[Top.i]
           m1 == cover_other_columns(dlx, i)
       IN  IF IsHung(m1)
           THEN Stuck
           ELSE /\ dlx' = m1
                /\ stack' = SetTop([Top EXCEPT !.i = i]) \o <<EntryFrame(Top.k + 1)>>
                /\ UNCHANGED <<pc, pnsol, solution, retval, leaves>>
    /\ UNCHANGED <<rows, M0, pre, prev, forced, lifo, last, ncalls, stream, loaded, darray>>

\* (i = i->down) == col: the loop ends; uncover(col); return n
Exhaust ==
    /\ pc = "run" /\ Top.at = "loop"
    /\ dlx.down[Top.i] = Top.col
    /\ LET m1 == uncover(dlx, Top.col)
       IN  IF IsHung(m1)
           THEN Stuck
           ELSE /\ dlx' = m1
                /\ Return(Top.n)
                /\ UNCHANGED <<pnsol, solution, leaves>>
    /\ UNCHANGED <<rows, M0, pre, prev, forced, lifo, last, ncalls, stream, loaded, darray>>

\* after the recursive call: uncover_other_columns(i); record the row if
\* n > 0; *pnsol != 0, so the loop goes on
ResumeNext ==
    /\ pc = "run" /\ Top.at = "after"
    /\ pnsol # 0
    /\ LET m1 == uncover_other_columns(dlx, Top.i)
       IN  IF IsHung(m1)
           THEN Stuck
           ELSE /\ dlx' = m1
                /\ solution' = IF Top.n > 0
                               THEN [solution EXCEPT ![Top.k].row_node = Top.i]
                               ELSE solution
                /\ stack' = SetTop([Top EXCEPT !.at = "loop"])
                /\ UNCHANGED <<pc, pnsol, retval, leaves>>
    /\ UNCHANGED <<rows, M0, pre, prev, forced, lifo, last, ncalls, stream, loaded, darray>>

\* ResumeBreak that breaks before the row is recorded
ResumeBreak_norecord ==
    /\ pc = "run" /\ Top.at = "after"
    /\ pnsol = 0
    /\ dlx' = uncover(uncover_other_columns(dlx, Top.i), Top.col)
    /\ Return(Top.n)
    /\ UNCHANGED <<pnsol, solution, leaves>>
    /\ UNCHANGED <<rows, M0, pre, prev, forced, lifo, last, ncalls, stream, loaded, darray>>

\* ResumeBreak that records a row only where none is recorded yet
ResumeBreak_keepfirst ==
    /\ pc = "run" /\ Top.at = "after"
    /\ pnsol = 0
    /\ dlx' = uncover(uncover_other_columns(dlx, Top.i), Top.col)
    /\ solution' = IF Top.n > 0 /\ solution[Top.k].row_node = NULL
                   THEN [solution EXCEPT ![Top.k].row_node = Top.i]
                   ELSE solution
    /\ Return(Top.n)
    /\ UNCHANGED <<pnsol, leaves>>
    /\ UNCHANGED <<rows, M0, pre, prev, forced, lifo, last, ncalls, stream, loaded, darray>>

\* ResumeBreak that goes on with the loop although *pnsol is 0
ResumeBreak_nobreak ==
    /\ pc = "run" /\ Top.at = "after"
    /\ pnsol = 0
    /\ dlx' = uncover_other_columns(dlx, Top.i)
    /\ solution' = IF Top.n > 0
                   THEN [solution EXCEPT ![Top.k].row_node = Top.i]
                   ELSE solution
    /\ stack' = SetTop([Top EXCEPT !.at = "loop"])
    /\ UNCHANGED <<pc, pnsol, retval, leaves>>
    /\ UNCHANGED <<rows, M0, pre, prev, forced, lifo, last, ncalls, stream, loaded, darray>>

\* after the recursive call: uncover_other_columns(i); record the row if
\* n > 0; *pnsol == 0: break; uncover(col); return n
ResumeBreak ==
    /\ pc = "run" /\ Top.at = "after"
    /\ pnsol = 0
    /\ LET m1 == uncover_other_columns(dlx, Top.i)
           m2 == IF IsHung(m1) THEN Hang ELSE uncover(m1, Top.col)
       IN  IF IsHung(m2)
           THEN Stuck
           ELSE /\ dlx' = m2
                /\ solution' = IF Top.n > 0
                               THEN [solution EXCEPT ![Top.k].row_node = Top.i]
                               ELSE solution
                /\ Return(Top.n)
                /\ UNCHANGED <<pnsol, leaves>>
    /\ UNCHANGED <<rows, M0, pre, prev, forced, lifo, last, ncalls, stream, loaded, darray>>

\* rows named by solution[0 .. n-1], decoded as the test driver does
SolRows(n) ==
    {RowOf(dlx, solution[j].row_node) :
        j \in {a \in (0 .. n - 1) \cap DOMAIN solution : solution[a].row_node # NULL}}

\* the caller takes the result; the matrix is free for the next call
Finish ==
    /\ pc = "done"
    /\ pc' = "idle"
    /\ prev' = [M |-> M0, ret |-> retval, pn |-> pnsol, rows |-> SolRows(retval)]
    /\ UNCHANGED <<rows, dlx, stack, pnsol, solution, retval, M0, pre, leaves,
                   forced, lifo, last, ncalls, stream, loaded, darray>>

Next ==
    \/ \E M \in 1 .. MaxSol : Call(M)
    \/ Leaf
    \/ Branch
    \/ Try
    \/ Exhaust
    \/ ResumeNext
    \/ ResumeBreak
    \/ Finish

Spec == Init /\ [][Next]_vars

\* ------------------------------------------------------------------------
\* Row preselection (dlx.c); r is any data node of the matrix
\* ------------------------------------------------------------------------
StuckInCall(op, r) ==
    /\ pc' = "hung"
    /\ last' = [op |-> op, r |-> r, ret |-> 0, fb |-> forced, lb |-> lifo]
    /\ ncalls' = ncalls + 1
    /\ UNCHANGED <<dlx, forced, lifo>>

\* variant that covers r's own column only
dlx_force_row_own(r) ==
    /\ pc = "idle"
    /\ ncalls < MaxCalls
    /\ pre' = dlx
    /\ dlx' = cover(dlx, dlx.header[r])
    /\ last' = [op |-> "force", r |-> r, ret |-> 0, fb |-> forced, lb |-> lifo]
    /\ forced' = Append(forced, r)
    /\ ncalls' = ncalls + 1
    /\ UNCHANGED <<pc, lifo>>
    /\ UNCHANGED <<rows, stack, pnsol, solution, retval, M0, leaves, prev, stream, loaded, darray>>

dlx_force_row(r) ==
    /\ pc = "idle"
    /\ ncalls < MaxCalls
    /\ pre' = dlx
    /\ IF is_removed_ud(dlx, r)
       THEN /\ last' = [op |-> "force", r |-> r, ret |-> -1, fb |-> forced, lb |-> lifo]
            /\ ncalls' = ncalls + 1
            /\ UNCHANGED <<dlx, forced, lifo, pc>>
       ELSE LET m1 == cover(dlx, dlx.header[r])
                m2 == IF IsHung(m1) THEN Hang ELSE cover_other_columns(m1, r)
            IN  IF IsHung(m2)
                THEN StuckInCall("force", r)
                ELSE /\ dlx' = m2
                     /\ last' = [op |-> "force", r |-> r, ret |-> 0, fb |-> forced, lb |-> lifo]
                     /\ forced' = Append(forced, r)
                     /\ ncalls' = ncalls + 1
                     /\ UNCHANGED <<pc, lifo>>
    /\ UNCHANGED <<rows, stack, pnsol, solution, retval, M0, leaves, prev, stream, loaded, darray>>

\* r names the row of the latest dlx_force_row that has not been unselected
InReverseOrder(r) ==
    forced # << >> /\ dlx.row_id[forced[Len(forced)]] = dlx.row_id[r]

\* forced without its last entry when the call is the inverse of that force
Unforced(r) ==
    IF InReverseOrder(r) THEN SubSeq(forced, 1, Len(forced) - 1) ELSE forced

dlx_unselect_row(r) ==
    /\ pc = "idle"
    /\ ncalls < MaxCalls
    /\ pre' = dlx
    /\ IF ~is_removed_ud(dlx, r)
       THEN /\ last' = [op |-> "unselect", r |-> r, ret |-> -1, fb |-> forced, lb |-> lifo]
            /\ ncalls' = ncalls + 1
            /\ UNCHANGED <<dlx, forced, lifo, pc>>
       ELSE LET m1 == uncover_other_columns(dlx, r)
                m2 == IF IsHung(m1) THEN Hang ELSE uncover(m1, dlx.header[r])
            IN  IF IsHung(m2)
                THEN StuckInCall("unselect", r)
                ELSE /\ dlx' = m2
                     /\ last' = [op |-> "unselect", r |-> r, ret |-> 0, fb |-> forced, lb |-> lifo]
                     /\ forced' = Unforced(r)
                     /\ lifo' = (lifo /\ InReverseOrder(r))
                     /\ ncalls' = ncalls + 1
                     /\ UNCHANGED pc
    /\ UNCHANGED <<rows, stack, pnsol, solution, retval, M0, leaves, prev, stream, loaded, darray>>

\* Preselection is explored on the matrices in which every row has a node
\* to select and at most MaxForceOnes of them.
InitForce ==
    \E R \in 1 .. MaxForceR, C \in 1 .. MaxForceC :
        \E rs \in [0 .. R - 1 ->
                      {s \in SUBSET (0 .. C - 1) :
                          Cardinality(s) \in 1 .. MaxForceOnes}] :
            Loaded(rs, C) /\ stream = NoStream /\ darray = NoArray

NextForce ==
    \/ \E r \in DataNodes : dlx_force_row(r)
    \/ \E r \in DataNodes : dlx_unselect_row(r)

SpecForce == InitForce /\ [][NextForce]_vars

\* ------------------------------------------------------------------------
\* Preselect, then solve (README Quickstart): one dlx_force_row on the
\* fresh matrix, then one dlx_exact_cover
\* ------------------------------------------------------------------------
ForceFirst(r) ==
    /\ ncalls = 0 /\ prev.M = 0
    /\ dlx_force_row(r)

CallForced(M) ==
    /\ last.op = "force" /\ last.ret = 0
    /\ prev.M = 0
    /\ Call(M)

NextForced ==
    \/ \E r \in DataNodes : ForceFirst(r)
    \/ \E M \in 1 .. MaxForcedSol : CallForced(M)
    \/ Leaf
    \/ Branch
    \/ Try
    \/ Exhaust
    \/ ResumeNext
    \/ ResumeBreak
    \/ Finish

SpecForced == Init /\ [][NextForced]_vars

\* ------------------------------------------------------------------------
\* The loader (dlx_read.c).  A stream is its text, the position at which a
\* read fails (0: never) and the allocation that fails (fail).  Bytes are
\* one-character strings; " " stands for every byte that is not '0', '1'
\* or newline.
\* ------------------------------------------------------------------------
SizeofSizeT == 8
ColIndInitial == 512
RowPtrInitial == 256

Chars == {"0", "1", "\n", " "}
FailSites == {"col_darray", "col_data", "row_darray", "row_data", "grow",
              "trim_col", "trim_row", "headers", "nodes", "row_off",
              "pheaders"}

\* size_t_darray_create, both allocations having succeeded.  alloc is the
\* number of bytes the data buffer really has: calloc(sz_initial,
\* sizeof(size_t)) here, realloc(data, new_size) in grow and trim.
size_t_darray_create(sz_initial) ==
    [sz_max |-> sz_initial, sz_cur |-> 0, i_next |-> 0, data |-> << >>,
     alloc |-> sz_initial * SizeofSizeT]

\* sz_max stays far below SIZE_MAX / 2, so the overflow branch is not taken
size_t_darray_grow(array, fails) ==
    LET half == array.sz_max \div 2
        new_size == (IF half = 0 THEN 1 ELSE half) + array.sz_max
    IN  IF new_size <= array.sz_cur \/ fails
        THEN [ret |-> -1, array |-> array]
        ELSE [ret |-> 0, array |-> [array EXCEPT !.sz_max = new_size,
                                                 !.alloc = new_size]]

\* IsFull that lets the array fill up to sz_max before it grows
IsFull_late(array) == array.sz_cur > array.sz_max

\* sz_cur > sz_max - sizeof(val) in size_t arithmetic: when sz_max is
\* smaller than sizeof(val) the difference wraps round to a value just
\* below SIZE_MAX, which no sz_cur reached here exceeds
IsFull(array) ==
    IF array.sz_max < SizeofSizeT THEN FALSE
    ELSE array.sz_cur > array.sz_max - SizeofSizeT

\* data[i_next] lies inside the bytes allocated for data
StoresInside(array) == (array.i_next + 1) * SizeofSizeT <= array.alloc

\* inside tells whether the store at data[i_next] stayed inside the buffer
size_t_darray_append(array, val, fails) ==
    LET g == IF IsFull(array)
             THEN size_t_darray_grow(array, fails)
             ELSE [ret |-> 0, array |-> array]
    IN  IF g.ret # 0
        THEN [ret |-> -1, array |-> array, inside |-> TRUE]
        ELSE [ret |-> 0, inside |-> StoresInside(g.array),
              array |-> [g.array EXCEPT !.data = Append(@, val),
                                        !.i_next = @ + 1,
                                        !.sz_cur = @ + SizeofSizeT]]

\* realloc to sz_cur bytes; a NULL result counts as failure unless sz_cur = 0
size_t_darray_trim(array, fails) ==
    IF fails /\ array.sz_cur # 0
    THEN [ret |-> -1, array |-> array]
    ELSE [ret |-> 0, array |-> [array EXCEPT !.sz_max = array.sz_cur,
                                             !.alloc = array.sz_cur]]

size_t_darray_size(array) == array.i_next

\* getc: a byte, or EOF with the end-of-file ("EOF") or the error ("ERR")
\* indicator set
getc(s, pos) ==
    IF s.err = pos THEN "ERR"
    ELSE IF pos > Len(s.text) THEN "EOF"
    ELSE s.text[pos]

\* an append whose result read_bcsr does not look at: lost counts the
\* values that were not stored
AppendUnchecked(st, which, val, fails) ==
    LET a == size_t_darray_append(st[which], val, fails)
    IN  [st EXCEPT ![which] = a.array,
                   !.lost = @ + (IF a.ret = 0 THEN 0 ELSE 1)]

\* variant of the switch that takes every other byte for a '0'
read_switch_lenient(st, c, fails) ==
    IF c = "1"
    THEN [AppendUnchecked(st, "col_ind", st.col, fails)
             EXCEPT !.col = @ + 1, !.fl_newline = FALSE]
    ELSE IF c = "\n"
    THEN [AppendUnchecked(st, "row_ptr", size_t_darray_size(st.col_ind), fails)
             EXCEPT !.max_cols = IF @ < st.col THEN st.col ELSE @,
                    !.col = 0, !.fl_newline = TRUE]
    ELSE [st EXCEPT !.col = @ + 1, !.fl_newline = FALSE]

\* variant of the switch in which a '0' does not advance the column
read_switch_skipzero(st, c, fails) ==
    IF c = "1"
    THEN [AppendUnchecked(st, "col_ind", st.col, fails)
             EXCEPT !.col = @ + 1, !.fl_newline = FALSE]
    ELSE IF c = "0"
    THEN [st EXCEPT !.fl_newline = FALSE]
    ELSE IF c = "\n"
    THEN [AppendUnchecked(st, "row_ptr", size_t_darray_size(st.col_ind), fails)
             EXCEPT !.max_cols = IF @ < st.col THEN st.col ELSE @,
                    !.col = 0, !.fl_newline = TRUE]
    ELSE [st EXCEPT !.ret = -2]

\* the switch on the byte just read
read_switch(st, c, fails) ==
    IF c = "1"
    THEN [AppendUnchecked(st, "col_ind", st.col, fails)
             EXCEPT !.col = @ + 1, !.fl_newline = FALSE]
    ELSE IF c = "0"
    THEN [st EXCEPT !.col = @ + 1, !.fl_newline = FALSE]
    ELSE IF c = "\n"
    THEN [AppendUnchecked(st, "row_ptr", size_t_darray_size(st.col_ind), fails)
             EXCEPT !.max_cols = IF @ < st.col THEN st.col ELSE @,
                    !.col = 0, !.fl_newline = TRUE]
    ELSE [st EXCEPT !.ret = -2]

\* variant that does not terminate an implicit final row
read_end_noimplicit(s, st) ==
    IF st.c = "ERR" THEN [st EXCEPT !.ret = -3] ELSE st

\* variant that does not look at the error indicator
read_end_noferror(s, st) ==
    IF ~st.fl_newline
    THEN [AppendUnchecked(st, "row_ptr", size_t_darray_size(st.col_ind),
                          s.fail = "grow")
             EXCEPT !.max_cols = IF @ < st.col THEN st.col ELSE @]
    ELSE st

\* after the loop: the implicit last row, or the I/O error
read_end(s, st) ==
    IF st.c = "ERR" THEN [st EXCEPT !.ret = -3]
    ELSE IF st.c = "EOF" /\ ~st.fl_newline
    THEN [AppendUnchecked(st, "row_ptr", size_t_darray_size(st.col_ind),
                          s.fail = "grow")
             EXCEPT !.max_cols = IF @ < st.col THEN st.col ELSE @]
    ELSE st

\* trim both arrays when nothing has failed so far
read_trim(s, st) ==
    IF st.ret # 0 THEN st
    ELSE LET t1 == size_t_darray_trim(st.col_ind, s.fail = "trim_col")
             t2 == size_t_darray_trim(st.row_ptr, s.fail = "trim_row")
         IN  IF t1.ret # 0 THEN [st EXCEPT !.ret = -1]
             ELSE IF t2.ret # 0 THEN [st EXCEPT !.col_ind = t1.array, !.ret = -1]
             ELSE [st EXCEPT !.col_ind = t1.array, !.row_ptr = t2.array]

NoCsr == [row_ptr_size |-> 0, col_ind |-> << >>, row_ptr |-> << >>]

\* What read_bcsr hands back: its return value, *n, *csr, the buffers it
\* leaves allocated without handing them to anyone (leaked), the number of
\* appends that stored nothing (lost) and whether an allocation failed.
\* Here for a failed size_t_darray_create: the second failure returns
\* without destroying the first array.
read_bcsr_nocreate(s) ==
    [ret |-> -1, n |-> 0, csr |-> NoCsr,
     leaked |-> IF s.fail \in {"row_darray", "row_data"}
                THEN {"col_ind_darray", "col_ind_darray->data"} ELSE {},
     lost |-> 0, failed |-> TRUE]

\* the loop state after both arrays were created and row_ptr[0] = 0 stored
read_bcsr_start(s) ==
    AppendUnchecked([col_ind |-> size_t_darray_create(ColIndInitial),
                     row_ptr |-> size_t_darray_create(RowPtrInitial),
                     col |-> 0, max_cols |-> 0, fl_newline |-> TRUE,
                     lost |-> 0, ret |-> 0, c |-> "EOF"],
                    "row_ptr", 0, s.fail = "grow")

\* read_bcsr from the end of its loop (state st) to its return
read_bcsr_return(s, st) ==
    LET st3 == IF st.ret = 0 THEN read_end(s, st) ELSE st
        st4 == read_trim(s, st3)
    IN  IF st4.ret = 0
        THEN [ret |-> 0, n |-> st4.max_cols,
              csr |-> [row_ptr_size |-> st4.row_ptr.i_next,
                       col_ind |-> [j \in 0 .. st4.col_ind.i_next - 1 |->
                                       st4.col_ind.data[j + 1]],
                       row_ptr |-> [i \in 0 .. st4.row_ptr.i_next - 1 |->
                                       st4.row_ptr.data[i + 1]]],
              leaked |-> {}, lost |-> st4.lost,
              failed |-> st4.lost > 0]
        ELSE [ret |-> st4.ret, n |-> 0, csr |-> NoCsr, leaked |-> {},
              lost |-> st4.lost,
              failed |-> (st4.lost > 0 \/ st4.ret = -1)]

NoMatrix == [none |-> TRUE]

\* dlx_read_matrix from the return of read_bcsr (rb) to its own return, on
\* a struct dlx_matrix the caller has not initialised.  When calloc fails
\* for headers, nodes or row_off, bcsr_to_dlx frees pointers that were
\* never set (dlx->nodes, dlx->row_off, pheaders): undefined behaviour,
\* which either passes unnoticed (ub = "benign") or stops the program
\* (ub = "crash").  calloc of zero elements is taken to return a pointer.
dlx_read_matrix_return(s, rb, ub) ==
    LET base == [phase |-> "returned", ret |-> rb.ret, crashed |-> FALSE,
                 n |-> rb.n, csr |-> rb.csr, dlx |-> NoMatrix,
                 handle |-> "untouched", live |-> rb.leaked,
                 lost |-> rb.lost, failed |-> rb.failed]
    IN  IF rb.ret # 0 THEN base
        ELSE IF s.fail \in {"headers", "nodes", "row_off"}
        THEN [base EXCEPT !.ret = -1, !.crashed = (ub = "crash"),
                          !.handle = "written", !.failed = TRUE]
        ELSE IF s.fail = "pheaders"
        THEN [base EXCEPT !.ret = -1, !.handle = "written", !.failed = TRUE]
        ELSE [base EXCEPT !.dlx = bcsr_to_dlx(rb.csr, rb.n),
                          !.handle = "built",
                          !.live = {"headers", "nodes", "row_off"}]

\* main calls dlx_read_matrix, which calls read_bcsr: the two arrays are
\* created and the loop is entered, or a creation fails and both return
read_bcsr_enter ==
    /\ loaded = NotRead
    /\ loaded' = IF stream.fail \in {"col_darray", "col_data",
                                     "row_darray", "row_data"}
                 THEN dlx_read_matrix_return(stream, read_bcsr_nocreate(stream),
                                             "benign")
                 ELSE [phase |-> "reading", st |-> read_bcsr_start(stream),
                       pos |-> 1]
    /\ UNCHANGED <<rows, dlx, pc, stack, pnsol, solution, retval, M0, pre,
                   leaves, prev, forced, lifo, last, ncalls, stream, darray>>

\* one turn of the loop of read_bcsr: getc and the switch; at EOF or at a
\* rejected byte the loop ends and everything up to the return of
\* dlx_read_matrix follows
read_bcsr_getc ==
    /\ loaded.phase = "reading"
    /\ LET c == getc(stream, loaded.pos)
           st1 == [loaded.st EXCEPT !.c = c]
           st2 == IF c \in {"EOF", "ERR"} THEN st1
                  ELSE read_switch(st1, c, stream.fail = "grow")
       IN  IF c \in {"EOF", "ERR"} \/ st2.ret # 0
           THEN \E ub \in {"benign", "crash"} :
                   loaded' = dlx_read_matrix_return(stream,
                                 read_bcsr_return(stream, st2), ub)
           ELSE loaded' = [loaded EXCEPT !.st = st2, !.pos = @ + 1]
    /\ UNCHANGED <<rows, dlx, pc, stack, pnsol, solution, retval, M0, pre,
                   leaves, prev, forced, lifo, last, ncalls, stream, darray>>

\* a run of n newlines
Run(n) == [k \in 1 .. n |-> "\n"]
Texts(n) == UNION {[1 .. k -> Chars] : k \in 0 .. n}

\* The streams explored: every text of at most MaxLen bytes, and the texts
\* of at most one byte after MaxPad - 1 or MaxPad empty lines, which fill
\* the row_ptr buffer; any one allocation failing or none; a read error at
\* any position or none.  No matrix has been loaded.
InitRead ==
    /\ Loaded(<< >>, 0)
    /\ darray = NoArray
    /\ \E t \in Texts(MaxLen) \cup
                {Run(p) \o u : p \in {MaxPad - 1, MaxPad}, u \in Texts(1)} :
          \E e \in 0 .. Len(t) + 1, f \in FailSites \cup {"none"} :
              stream = [text |-> t, err |-> e, fail |-> f]

NextRead == read_bcsr_enter \/ read_bcsr_getc

SpecRead == InitRead /\ [][NextRead]_vars


\* ------------------------------------------------------------------------
\* The growable array on its own: size_t_darray_create with any non-zero
\* capacity, then appends.  A store outside the buffer is undefined
\* behaviour: what the array holds afterwards is anything, and nothing
\* more is done with it.
\* ------------------------------------------------------------------------
InitDarray ==
    /\ Loaded(<< >>, 0)
    /\ stream = NoStream
    /\ \E cap \in 1 .. MaxCap :
          darray = [cap |-> cap, array |-> size_t_darray_create(cap),
                    vals |-> << >>,
                    calls |-> 0, oob |-> FALSE]

\* one call size_t_darray_append(array, val); realloc may fail in grow
darray_append(val) ==
    /\ darray.calls < MaxAppends
    /\ ~darray.oob
    /\ \E fails \in BOOLEAN, junk \in 0 .. MaxVal :
          LET a == size_t_darray_append(darray.array, val, fails)
          IN  darray' =
                IF a.ret # 0
                THEN [darray EXCEPT !.calls = @ + 1]
                ELSE IF a.inside
                THEN [darray EXCEPT !.array = a.array,
                                    !.vals = Append(@, val),
                                    !.calls = @ + 1]
                ELSE [darray EXCEPT !.array = [a.array EXCEPT
                                        !.data = Append(darray.array.data, junk)],
                                    !.vals = Append(@, val),
                                    !.calls = @ + 1,
                                    !.oob = TRUE]
    /\ UNCHANGED <<rows, dlx, pc, stack, pnsol, solution, retval, M0, pre,
                   leaves, prev, forced, lifo, last, ncalls, stream, loaded>>

NextDarray == \E val \in 0 .. MaxVal : darray_append(val)

SpecDarray == InitDarray /\ [][NextDarray]_vars


\* ------------------------------------------------------------------------
\* dlx_make_header_row on its own: a root and n headers in memory that
\* holds anything (every link g, every count cnt, ids as the caller set
\* them), then the call.  pc is "raw" before it and "made" after it.
\* ------------------------------------------------------------------------
RawHeaders(n, g, cnt, ids) ==
    LET H == {headers(c) : c \in 0 .. n - 1}
        A == {root} \cup H
    IN  [left |-> [x \in A |-> g], right |-> [x \in A |-> g],
         up |-> [x \in A |-> g], down |-> [x \in A |-> g],
         header |-> [x \in A |-> g],
         row_id |-> [x \in H |-> NULL],
         node_count |-> [x \in A |-> cnt],
         id |-> ids,
         row_off |-> << >>, n_col |-> n, n_row |-> 0]

InitHeader ==
    /\ \E n \in 0 .. MaxHdr, g \in {NULL, root}, cnt \in {0, MaxHdr} :
          \E ids \in [{headers(c) : c \in 0 .. n - 1} -> {NULL, MaxHdr}] :
              /\ dlx = RawHeaders(n, g, cnt, ids)
              /\ pre = RawHeaders(n, g, cnt, ids)
    /\ pc = "raw"
    /\ rows = << >> /\ solution = << >> /\ stack = << >>
    /\ pnsol = 0 /\ retval = 0 /\ M0 = 0 /\ leaves = << >>
    /\ prev = NoResult /\ forced = << >> /\ lifo = TRUE /\ last = NoCall
    /\ ncalls = 0 /\ loaded = NotRead /\ stream = NoStream /\ darray = NoArray

make_header_row ==
    /\ pc = "raw"
    /\ dlx' = dlx_make_header_row(dlx, dlx.n_col)
    /\ pc' = "made"
    /\ UNCHANGED <<rows, stack, pnsol, solution, retval, M0, pre, leaves, prev,
                   forced, lifo, last, ncalls, stream, loaded, darray>>

NextHeader == make_header_row

SpecHeader == InitHeader /\ [][NextHeader]_vars


\* ------------------------------------------------------------------------
\* Everything a caller can do with a built matrix, in any order between
\* calls: dlx_force_row, dlx_unselect_row and dlx_exact_cover
\* ------------------------------------------------------------------------
InitAll ==
    \E R \in 0 .. MaxAllR, C \in 0 .. MaxAllC :
        /\ R * C <= MaxAllCells
        /\ R = 0 => C = 0
        /\ \E rs \in [0 .. R - 1 -> SUBSET (0 .. C - 1)] : Loaded(rs, C)
        /\ stream = NoStream /\ darray = NoArray

NextAll ==
    \/ \E r \in DataNodes : dlx_force_row(r)
    \/ \E r \in DataNodes : dlx_unselect_row(r)
    \/ \E M \in 1 .. MaxForcedSol : Call(M)
    \/ Leaf
    \/ Branch
    \/ Try
    \/ Exhaust
    \/ ResumeNext
    \/ ResumeBreak
    \/ Finish

SpecAll == InitAll /\ [][NextAll]_vars


\* ------------------------------------------------------------------------
\* Exact covers of the input matrix, read off the input alone
\* ------------------------------------------------------------------------
Columns == 0 .. dlx.n_col - 1
IsExactCover(S) == \A c \in Columns : Cardinality({i \in S : c \in rows[i]}) = 1
ExactCovers == {S \in SUBSET (DOMAIN rows) : IsExactCover(S)}
\* exact covers made of rows that hold at least one 1
ProperCovers == {S \in ExactCovers : \A i \in S : rows[i] # {}}

Returned == pc = "done"
\* solution[0 .. n-1] all name data nodes
SolWritten(n) ==
    /\ n <= dlx.n_row
    /\ \A j \in 0 .. n - 1 : solution[j].row_node \in DataNodes

\* C1: when the top-level dlx_exact_cover returns, every link, every header
\* reference and every node_count is what it was before the call.
C1_Restoration == Returned => dlx = pre

C1_Witness == Returned /\ M0 = 2 /\ pnsol = 0 /\ retval = 2 /\ Len(leaves) = 2

\* C2: a returned size s > 0 comes with solution[0..s-1] naming pairwise
\* column-disjoint rows whose columns together are exactly 0..C-1.
C2_SolutionIsExactCover ==
    (Returned /\ retval > 0) =>
        /\ SolWritten(retval)
        /\ \A j1, j2 \in 0 .. retval - 1 :
              j1 # j2 => rows[RowOf(dlx, solution[j1].row_node)] \cap
                         rows[RowOf(dlx, solution[j2].row_node)] = {}
        /\ UNION {rows[RowOf(dlx, solution[j].row_node)] : j \in 0 .. retval - 1}
              = Columns

C2_Witness ==
    /\ Returned /\ retval = 2 /\ dlx.n_col = 3 /\ M0 = 1
    /\ solution[0].row_node # NULL /\ solution[1].row_node # NULL

\* C3, amended: with C >= 1 and *pnsol = 1 the call returns a size > 0
\* exactly when some set of rows is an exact cover, and 0 exactly when there
\* is none (rows '11','11' have one: either row alone).
C3_FirstSolutionIff ==
    (Returned /\ M0 = 1 /\ dlx.n_col >= 1) => ((retval > 0) <=> (ExactCovers # {}))

\* C3 as claimed: the same, with rows '11','11' as a matrix for which the
\* call returns 0.
C3_AsClaimed ==
    /\ C3_FirstSolutionIff
    /\ (/\ Returned /\ M0 = 1
        /\ dlx.n_row = 2 /\ dlx.n_col = 2 /\ rows[0] = {0, 1} /\ rows[1] = {0, 1})
       => retval = 0

\* every column has candidate rows, yet the call returns 0
C3_Witness ==
    /\ Returned /\ M0 = 1 /\ retval = 0 /\ dlx.n_col >= 2
    /\ \A c \in Columns : \E i \in DOMAIN rows : c \in rows[i]

\* what C4 says of a call that finds its M0-th solution
FoundMth ==
    /\ pnsol = 0
    /\ Len(leaves) = M0
    /\ retval = Cardinality(leaves[M0])
    /\ SolWritten(retval)
    /\ SolRows(retval) = leaves[M0]

\* C4 as claimed: at least M exact covers => the M-th leaf is returned.
C4_AsClaimed == (Returned /\ Cardinality(ExactCovers) >= M0) => FoundMth

\* C4, amended: if the matrix has at least M exact covers made of rows
\* holding at least one 1, a call with *pnsol = M returns with *pnsol = 0,
\* the size of the M-th leaf success and that leaf's rows in solution[].
C4_MthSolution == (Returned /\ Cardinality(ProperCovers) >= M0) => FoundMth

C4_Witness ==
    /\ Returned /\ M0 = 2 /\ Cardinality(ProperCovers) >= 2 /\ retval = 2
    /\ leaves[1] # leaves[2]

\* C5: with C >= 1 and fewer than M exact covers the call returns 0.
C5_FewerReturnsZero ==
    (Returned /\ dlx.n_col >= 1 /\ Cardinality(ExactCovers) < M0) => retval = 0

\* every cover in CS is reached at exactly one leaf and nothing else is
LeavesAreExactly(CS) ==
    /\ \A a, b \in 1 .. Len(leaves) : a # b => leaves[a] # leaves[b]
    /\ {leaves[a] : a \in 1 .. Len(leaves)} = CS
    /\ M0 - pnsol = Cardinality(CS)

\* C6 as claimed, counting every exact cover.
C6_AsClaimed ==
    /\ (Returned /\ M0 > Cardinality(ExactCovers)) => LeavesAreExactly(ExactCovers)
    /\ (Returned /\ M0 = 2) => ((pnsol = 1) <=> (Cardinality(ExactCovers) = 1))

\* C6, amended: run with *pnsol = M larger than the number of exact covers
\* made of rows holding at least one 1, the search reaches each of those
\* covers at exactly one leaf, M - *pnsol is their number, and a call with
\* *pnsol = 2 ends with *pnsol = 1 exactly when there is one such cover.
C6_EachCoverOnce ==
    /\ (Returned /\ M0 > Cardinality(ProperCovers)) => LeavesAreExactly(ProperCovers)
    /\ (Returned /\ M0 = 2) => ((pnsol = 1) <=> (Cardinality(ProperCovers) = 1))

C6_Witness == Returned /\ M0 = 3 /\ pnsol = 1 /\ Cardinality(ProperCovers) = 2

\* C7: when the calls with *pnsol = k and *pnsol = k+1 both end with
\* *pnsol = 0, they return different row sets.
C7_NextSolutionDiffers ==
    (/\ Returned /\ pnsol = 0
     /\ prev.M >= 1 /\ prev.pn = 0
     /\ M0 = prev.M + 1)
    => (SolWritten(retval) /\ SolRows(retval) # prev.rows)

C7_Witness ==
    Returned /\ pnsol = 0 /\ prev.M = 1 /\ prev.pn = 0 /\ M0 = 2 /\ retval = 2

\* ------------------------------------------------------------------------
\* Preselection claims
\* ------------------------------------------------------------------------
\* the matrix as the builder leaves it
Built == bcsr_to_dlx(bcsr(rows), dlx.n_col)

\* x's row is one of the rows forced by F or shares a column with one
RowTakenOut(F, x) ==
    \E a \in 1 .. Len(F) : rows[RowOf(dlx, F[a])] \cap rows[RowOf(dlx, x)] # {}

\* the built matrix after dlx_force_row(r)
ForcedOnce(r) == cover_other_columns(cover(Built, Built.header[r]), r)

\* C8: dlx_force_row(r) returns -1 for every node r of a row that is forced
\* or shares a column with a forced row, and 0 only for a row still fully
\* in the matrix.
C8_ForceRejectsRemoved ==
    last.op = "force" => ((last.ret = -1) <=> RowTakenOut(last.fb, last.r))

\* C9: on a freshly built matrix, dlx_force_row(r) then dlx_unselect_row(r)
\* both return 0 and every link and count is back to the built state.
C9_UnselectUndoesForce ==
    (last.op = "unselect" /\ last.fb = <<last.r>> /\ pre = ForcedOnce(last.r))
        => (last.ret = 0 /\ dlx = Built)

\* C10: a call that returns -1 has changed nothing, and with no row forced
\* (every dlx_force_row that returned 0 answered, in reverse order, by a
\* dlx_unselect_row of its row that returned 0) dlx_unselect_row returns -1
\* for every data node.
C10_FailureIsHarmless ==
    /\ (last.op # "none" /\ last.ret = -1) => dlx = pre
    /\ (last.op = "unselect" /\ last.lb /\ last.fb = << >>) => last.ret = -1

\* ------------------------------------------------------------------------
\* Search after a preselection
\* ------------------------------------------------------------------------
\* the row given to the dlx_force_row before the search
ForcedRow == RowOf(dlx, last.r)
\* exact covers of the original matrix that contain row i
CoversWith(i) == {S \in ExactCovers : i \in S}
\* the search called with *pnsol = 1 after the force has returned
AfterForcedSearch == Returned /\ last.op = "force" /\ last.ret = 0 /\ M0 = 1

\* what the search leaves behind after a forced row: the matrix as the force
\* left it, and when *pnsol reached 0 the rows that complete r's row
ForcedSearchResult ==
    /\ dlx = ForcedOnce(last.r)
    /\ (pnsol = 0) <=> (CoversWith(ForcedRow) # {})
    /\ pnsol = 0 =>
          /\ SolWritten(retval)
          /\ Cardinality(SolRows(retval)) = retval
          /\ ForcedRow \notin SolRows(retval)
          /\ IsExactCover(SolRows(retval) \cup {ForcedRow})

\* C11 as claimed: after dlx_force_row(r) = 0 on a fresh matrix, the call
\* with *pnsol = 1 returns a size > 0 exactly when an exact cover contains
\* r's row, the returned rows and r's row form an exact cover, and the
\* matrix is left in the post-force state.
C11_AsClaimed ==
    AfterForcedSearch =>
        /\ ForcedSearchResult
        /\ (retval > 0) <=> (CoversWith(ForcedRow) # {})

\* C11, amended: the call ends with *pnsol = 0 exactly when an exact cover
\* contains r's row; the returned size is the number of rows added to r's
\* row, which is 0 when r's row covers every column by itself; the returned
\* rows and r's row form an exact cover; the matrix is left as the force
\* left it.
C11_ForcedSearch ==
    AfterForcedSearch =>
        /\ ForcedSearchResult
        /\ (retval > 0) <=>
              (CoversWith(ForcedRow) # {} /\ rows[ForcedRow] # Columns)

C11_Witness ==
    /\ AfterForcedSearch /\ retval = 2 /\ pnsol = 0 /\ dlx.n_col = 3

\* ------------------------------------------------------------------------
\* Matrices without columns; structural invariants
\* ------------------------------------------------------------------------
\* C18: with no column (C = 0, any R) the call at k = 0 returns 0, takes
\* exactly 1 off *pnsol, writes no entry of solution[] and changes no link.
C18_EmptyMatrix ==
    (Returned /\ dlx.n_col = 0) =>
        /\ retval = 0
        /\ pnsol = M0 - 1
        /\ \A k \in DOMAIN solution : solution[k] = NoSrow
        /\ dlx = pre

C18_Witness == Returned /\ dlx.n_col = 0 /\ dlx.n_row = 2 /\ M0 = 3 /\ pnsol = 2

\* number of nodes met walking h.down until h is reached again
RECURSIVE down_walk(_, _, _, _)
down_walk(m, h, i, fuel) ==
    IF i = h \/ fuel = 0 THEN 0 ELSE 1 + down_walk(m, h, m.down[i], fuel - 1)

LiveCount(m, h) == down_walk(m, h, m.down[h], Fuel(m))

Headers == {x \in DOMAIN dlx.left : x < root}

\* C19: in every state after the build, each header's node_count is the
\* number of data nodes linked in its column.
C19_CountConsistency ==
    \A h \in Headers : dlx.node_count[h] = LiveCount(dlx, h)

\* a header taken out of the header list, a data node taken out of its column
Excised(m, x) ==
    IF x < root THEN m.right[m.left[x]] # x
    ELSE IF x > 0 THEN is_removed_ud(m, x)
    ELSE FALSE

SymmetricLR(m, x) == m.right[m.left[x]] = x /\ m.left[m.right[x]] = x
SymmetricUD(m, x) == x = root \/ (m.down[m.up[x]] = x /\ m.up[m.down[x]] = x)

\* headers met walking right from the root until the root is reached again
RECURSIVE right_walk(_, _, _)
right_walk(m, h, fuel) ==
    IF h = root \/ fuel = 0 THEN {} ELSE {h} \cup right_walk(m, m.right[h], fuel - 1)

\* the headers that are not excised are the ones on the list through root
HeadersCircular(m) ==
    right_walk(m, m.right[root], Fuel(m)) =
        {h \in DOMAIN m.left : h < root /\ ~Excised(m, h)}

\* no cover or uncover is in progress
Quiescent == pc \in {"idle", "done"}

\* C20: whenever no cover or uncover is in progress, every node that is not
\* excised has left.right = right.left = up.down = down.up = itself, and
\* the live headers form one circular list through the root.
C20_Symmetry ==
    Quiescent =>
        /\ \A x \in DOMAIN dlx.left :
              ~Excised(dlx, x) => (SymmetricLR(dlx, x) /\ SymmetricUD(dlx, x))
        /\ HeadersCircular(dlx)


\* ------------------------------------------------------------------------
\* The text format, read off the text alone: lines, widths and positions.
\* ------------------------------------------------------------------------
ValidText(t) == \A k \in DOMAIN t : t[k] \in {"0", "1", "\n"}
NewlineCount(t) == Cardinality({k \in DOMAIN t : t[k] = "\n"})
Unterminated(t) == Len(t) > 0 /\ t[Len(t)] # "\n"
RowCount(t) == NewlineCount(t) + (IF Unterminated(t) THEN 1 ELSE 0)
\* the 0-based line the byte at position k belongs to
LineOf(t, k) == Cardinality({j \in 1 .. k - 1 : t[j] = "\n"})
\* the 0-based position of the byte at position k within its line
ColOf(t, k) == Cardinality({j \in 1 .. k - 1 : LineOf(t, j) = LineOf(t, k)})
Width(t, i) == Cardinality({k \in DOMAIN t : t[k] # "\n" /\ LineOf(t, k) = i})
OnesOf(t, i) == {ColOf(t, k) : k \in {j \in DOMAIN t : t[j] = "1" /\ LineOf(t, j) = i}}
MaxWidth(t) ==
    IF RowCount(t) = 0 THEN 0
    ELSE CHOOSE w \in 0 .. Len(t) :
            /\ \E i \in 0 .. RowCount(t) - 1 : Width(t, i) = w
            /\ \A i \in 0 .. RowCount(t) - 1 : Width(t, i) <= w

\* the call has been made and nothing failed around it: no read error, no
\* allocation failure
ReadUndisturbed == loaded.phase = "returned" /\ stream.err = 0 /\ stream.fail = "none"

\* C12: an input of '0', '1' and newline only is loaded with success, with
\* R = number of newlines, plus one when the input is non-empty and does
\* not end in a newline, and C = the width of the widest row, the
\* unterminated last row included; an empty line is a row of width 0 and
\* the empty input gives R = 0 and C = 0.  (Read errors and allocation
\* failures are the subject of C15 and C16.)
C12_RowsAndColumns ==
    (ReadUndisturbed /\ ValidText(stream.text)) =>
        /\ loaded.ret = 0
        /\ loaded.handle = "built"
        /\ loaded.csr.row_ptr_size = RowCount(stream.text) + 1
        /\ loaded.dlx.n_row = RowCount(stream.text)
        /\ loaded.n = MaxWidth(stream.text)
        /\ loaded.dlx.n_col = MaxWidth(stream.text)
        /\ stream.text = << >> => (loaded.dlx.n_row = 0 /\ loaded.dlx.n_col = 0)

\* an empty line followed by an unterminated row that is the widest
C12_Witness ==
    /\ ReadUndisturbed /\ ValidText(stream.text)
    /\ Unterminated(stream.text)
    /\ Width(stream.text, 0) = 0
    /\ loaded.dlx.n_row = 2
    /\ loaded.dlx.n_col = 2


\* read_bcsr returned 0 and exported its two arrays
ReadBcsrOk == loaded.phase = "returned" /\ loaded.csr # NoCsr

\* the shape C13 describes, for the text t, the exported csr and *n
CsrOf(t, csr, C) ==
    LET R == csr.row_ptr_size - 1
        N == Cardinality({k \in DOMAIN t : t[k] = "1"})
    IN  /\ csr.row_ptr[0] = 0
        /\ \A i \in 0 .. R - 1 : csr.row_ptr[i] <= csr.row_ptr[i + 1]
        /\ csr.row_ptr[R] = N
        /\ DOMAIN csr.col_ind = 0 .. N - 1
        /\ \A i \in 0 .. R - 1 :
              LET J == csr.row_ptr[i] .. csr.row_ptr[i + 1] - 1
              IN  /\ {csr.col_ind[j] : j \in J} = OnesOf(t, i)
                  /\ \A j \in J : j + 1 \in J => csr.col_ind[j] < csr.col_ind[j + 1]
                  /\ \A j \in J : csr.col_ind[j] < C

\* C13: when read_bcsr succeeds, row_ptr[0] = 0, row_ptr is non-decreasing,
\* row_ptr[R] = N = the number of '1' characters read, and the entries of
\* col_ind for row i are exactly the 0-based positions of the '1'
\* characters of line i, strictly ascending, each smaller than C.
C13_CsrShape == ReadBcsrOk => CsrOf(stream.text, loaded.csr, loaded.n)


\* position of the first byte that is not '0', '1' or newline; 0 if none
FirstBad(t) ==
    IF ValidText(t) THEN 0
    ELSE CHOOSE k \in DOMAIN t :
            /\ t[k] \notin {"0", "1", "\n"}
            /\ \A j \in 1 .. k - 1 : t[j] \in {"0", "1", "\n"}

\* both growable buffers were created, so the stream is read
Created == stream.fail \notin {"col_darray", "col_data", "row_darray", "row_data"}
\* no read fails before the loop ends
ReadWithoutError ==
    \/ stream.err = 0
    \/ FirstBad(stream.text) # 0 /\ FirstBad(stream.text) < stream.err

\* C14: when the stream is read without I/O error, dlx_read_matrix returns
\* -2 exactly when the input holds a byte other than '0', '1' and newline,
\* wherever that byte is and whatever follows it, and then no DLX matrix is
\* built.
C14_Malformed ==
    (loaded.phase = "returned" /\ Created /\ ReadWithoutError) =>
        /\ loaded.ret = -2 <=> ~ValidText(stream.text)
        /\ loaded.ret = -2 => (loaded.dlx = NoMatrix /\ loaded.handle = "untouched")

\* the input "1 0\n": the bad byte is neither first nor last
C14_Witness ==
    /\ loaded.phase = "returned" /\ Created /\ ReadWithoutError
    /\ stream.text = <<"1", " ", "0", "\n">>
    /\ loaded.ret = -2


\* C15: if an allocation or a buffer grow attempted while loading fails,
\* dlx_read_matrix returns -1, no appended value is lost, and every buffer
\* allocated up to then has been released when it returns.
C15_AllocationFailure ==
    (loaded.phase = "returned" /\ loaded.failed) =>
        /\ ~loaded.crashed
        /\ loaded.ret = -1
        /\ loaded.lost = 0
        /\ loaded.live = {}


\* a read fails before any byte other than '0', '1' and newline is seen
ReadErrorFirst ==
    /\ stream.err # 0
    /\ FirstBad(stream.text) = 0 \/ stream.err <= FirstBad(stream.text)

\* C16: when the stream reports a read error before any invalid byte is
\* seen, dlx_read_matrix returns -3 whatever was read before; the outcomes
\* exclude one another (-3 only after a read error, -2 only at an invalid
\* byte met without read error, 0 only for a valid text read to its end);
\* and when the result is -2 or -3 the caller's dlx_matrix is not written.
C16_IoError ==
    loaded.phase = "returned" =>
        /\ (Created /\ ReadErrorFirst) => loaded.ret = -3
        /\ loaded.ret \in {0, -1, -2, -3}
        /\ loaded.ret = -3 => ReadErrorFirst
        /\ loaded.ret = -2 => (~ReadErrorFirst /\ ~ValidText(stream.text))
        /\ loaded.ret = 0 => (stream.err = 0 /\ ValidText(stream.text))
        /\ loaded.ret \in {-2, -3} =>
              (loaded.handle = "untouched" /\ loaded.dlx = NoMatrix)

\* a '1' and a newline were read, the third read fails, an invalid byte
\* would have followed
C16_Witness ==
    /\ loaded.phase = "returned"
    /\ Len(stream.text) > 2
    /\ stream.text[1] = "1" /\ stream.text[2] = "\n"
    /\ stream.err = 3
    /\ FirstBad(stream.text) > 3
    /\ loaded.ret = -3


\* ------------------------------------------------------------------------
\* Rendering a CSR matrix as text and reading it back.
\* ------------------------------------------------------------------------
\* each row written as exactly C characters '0'/'1' followed by a newline
Render(csr, C) ==
    LET R == csr.row_ptr_size - 1
        ones(i) == {csr.col_ind[j] : j \in csr.row_ptr[i] .. csr.row_ptr[i + 1] - 1}
    IN  [k \in 1 .. R * (C + 1) |->
            LET i == (k - 1) \div (C + 1)
                c == (k - 1) % (C + 1)
            IN  IF c = C THEN "\n" ELSE IF c \in ones(i) THEN "1" ELSE "0"]

\* every matrix of R rows over C columns within the bounds, R = 0 with
\* C > 0 included, kept in rows and dlx; the stream holds its rendering
InitRender ==
    \E R \in 0 .. MaxR, C \in 0 .. MaxC :
        /\ R * C <= MaxCells
        /\ \E rs \in [0 .. R - 1 -> SUBSET (0 .. C - 1)] :
              /\ Loaded(rs, C)
              /\ darray = NoArray
              /\ stream = [text |-> Render(bcsr(rs), C), err |-> 0,
                           fail |-> "none"]

NextRender == read_bcsr_enter \/ read_bcsr_getc

SpecRender == InitRender /\ [][NextRender]_vars

\* the rendering has been read back and gave the CSR and C it was made from
ReadBack ==
    /\ loaded.ret = 0
    /\ loaded.csr = bcsr(rows)
    /\ loaded.n = dlx.n_col

\* C17 as stated: for every CSR matrix with column count C, reading back
\* its rendering yields the same row_ptr, the same col_ind and the same C.
C17_AsClaimed == loaded.phase = "returned" => ReadBack

\* C17: for every CSR matrix with column count C that has at least one row
\* or has C = 0, reading back its rendering yields the same row_ptr, the
\* same col_ind and the same C.
C17_RoundTrip ==
    (loaded.phase = "returned" /\ (dlx.n_row >= 1 \/ dlx.n_col = 0)) => ReadBack

\* a matrix with an empty row and a row whose last column is 0
C17_Witness ==
    /\ loaded.phase = "returned"
    /\ dlx.n_row >= 2 /\ dlx.n_col >= 2
    /\ rows[0] = {}
    /\ rows[1] = {0}
    /\ ReadBack


\* ------------------------------------------------------------------------
\* The reported number of choices
\* ------------------------------------------------------------------------
\* the top level has just branched: col is covered, no row has been tried
JustBranched == pc = "run" /\ Top.at = "loop" /\ Top.i = Top.col

\* C21: solution[k].n_choices is the number of candidate rows (live data
\* nodes) the column chosen at depth k had when it was branched on; for a
\* returned solution the matrix is restored, so depth 0's column is again
\* the one hnode_min_count picks.
C21_Choices ==
    /\ JustBranched =>
          solution[Top.k].n_choices = LiveCount(dlx, Top.col)
    /\ (Returned /\ pnsol = 0 /\ retval > 0) =>
          solution[0].n_choices = LiveCount(dlx, hnode_min_count(dlx).min)


\* ------------------------------------------------------------------------
\* The matrix as built
\* ------------------------------------------------------------------------
dlx_row_id(m, node) == IF node # NULL THEN m.row_id[node] ELSE NULL

\* dlx_read_matrix returned 0: loaded.dlx is the matrix, loaded.csr the CSR
\* it was built from
BuiltOk == loaded.phase = "returned" /\ loaded.handle = "built"

\* C22: after a successful build, for every row i and every data node n
\* with row_off[i] <= index(n) < row_off[i+1], dlx_row_id(n) minus the
\* row_off base is i; row_off[i] = row_ptr[i] for i in 0..R, so
\* row_off[0] = 0 and row_off[R] = N; and dlx_row_id(NULL) is NULL.
C22_RowIdentity ==
    BuiltOk =>
        LET m == loaded.dlx
            R == m.n_row
            N == Cardinality({x \in DOMAIN m.left : x > 0})
        IN  /\ \A i \in 0 .. R - 1 :
                  \A j \in m.row_off[i] .. m.row_off[i + 1] - 1 :
                      dlx_row_id(m, nodes(j)) - row_off_at(0) = i
            /\ DOMAIN m.row_off = 0 .. R
            /\ \A i \in 0 .. R : m.row_off[i] = loaded.csr.row_ptr[i]
            /\ m.row_off[0] = 0
            /\ m.row_off[R] = N
            /\ dlx_row_id(m, NULL) = NULL

\* three rows, the middle one empty, the last one with two nodes
C22_Witness ==
    /\ BuiltOk
    /\ loaded.dlx.n_row = 3
    /\ loaded.dlx.row_off[1] = 1 /\ loaded.dlx.row_off[2] = 1
    /\ loaded.dlx.row_off[3] = 3
    /\ dlx_row_id(loaded.dlx, nodes(2)) = row_off_at(2)


\* C23: for any non-zero initial capacity, every size_t_darray_append that
\* returns 0 stores its value inside the storage allocated for the array,
\* so the data holds all appended values in order.
C23_AppendStaysInside ==
    darray # NoArray =>
        /\ ~darray.oob
        /\ darray.array.data = darray.vals


\* C24: dlx_make_header_row gives, for n = 0, root.left = root.right =
\* root; for n >= 1 one circular list root, h[0], ..., h[n-1], root in both
\* directions, each header's up, down and header pointing to the header
\* itself; the id fields are not written.
C24_HeaderRow ==
    pc = "made" =>
        LET n == dlx.n_col
            h(c) == IF c < 0 \/ c >= n THEN root ELSE headers(c)
        IN  /\ n = 0 => (dlx.left[root] = root /\ dlx.right[root] = root)
            /\ dlx.right[root] = h(0)
            /\ dlx.left[root] = h(n - 1)
            /\ \A c \in 0 .. n - 1 :
                  /\ dlx.right[h(c)] = h(c + 1)
                  /\ dlx.left[h(c)] = h(c - 1)
                  /\ dlx.up[h(c)] = h(c)
                  /\ dlx.down[h(c)] = h(c)
                  /\ dlx.header[h(c)] = h(c)
            /\ dlx.id = pre.id

\* two headers whose ids were set beforehand, in memory full of stale links
C24_Witness ==
    /\ pc = "made"
    /\ dlx.n_col = 2
    /\ pre.left[root] = root
    /\ \A c \in 0 .. 1 : dlx.id[headers(c)] = MaxHdr
    /\ dlx.right[headers(1)] = root


\* the nodes met walking down (up) from i until h is reached, in order
RECURSIVE DownSeq(_, _, _, _)
DownSeq(m, h, i, fuel) ==
    IF i = h \/ fuel = 0 THEN << >> ELSE <<i>> \o DownSeq(m, h, m.down[i], fuel - 1)

RECURSIVE UpSeq(_, _, _, _)
UpSeq(m, h, i, fuel) ==
    IF i = h \/ fuel = 0 THEN << >> ELSE <<i>> \o UpSeq(m, h, m.up[i], fuel - 1)

Reverse(s) == [k \in 1 .. Len(s) |-> s[Len(s) + 1 - k]]

\* the nodes of column c in CSR order: nodes[j] for the j with col_ind[j] = c
ColumnNodes(csr, c) ==
    LET js == SortedSeq({j \in DOMAIN csr.col_ind : csr.col_ind[j] = c})
    IN  [k \in 1 .. Len(js) |-> nodes(js[k])]

\* C25: after the build each column c is a circular up-down list of its
\* header and exactly the nodes of the rows with a 1 in column c, in
\* ascending row order from header.down (header.up is the node of the
\* highest row), and every data node's header is the header of the column
\* its col_ind entry names.
C25_Columns ==
    BuiltOk =>
        LET m == loaded.dlx
            csr == loaded.csr
        IN  /\ \A c \in 0 .. m.n_col - 1 :
                  LET d == DownSeq(m, headers(c), m.down[headers(c)], Fuel(m))
                      u == UpSeq(m, headers(c), m.up[headers(c)], Fuel(m))
                  IN  /\ d = ColumnNodes(csr, c)
                      /\ u = Reverse(d)
                      /\ {RowOf(m, d[k]) : k \in 1 .. Len(d)} =
                            {i \in 0 .. m.n_row - 1 : c \in OnesOf(stream.text, i)}
                      /\ Len(d) = Cardinality({RowOf(m, d[k]) : k \in 1 .. Len(d)})
                      /\ \A k \in 1 .. Len(d) - 1 : RowOf(m, d[k]) < RowOf(m, d[k + 1])
            /\ \A j \in DOMAIN csr.col_ind :
                  m.header[nodes(j)] = headers(csr.col_ind[j])

\* a column holding the nodes of rows 0 and 2 but not of row 1
C25_Witness ==
    /\ BuiltOk
    /\ loaded.dlx.n_row = 3 /\ loaded.dlx.n_col >= 2
    /\ rows[0] = {0, 1} /\ rows[1] = {0} /\ rows[2] = {1}
    /\ loaded.dlx.down[headers(1)] = nodes(1)
    /\ loaded.dlx.up[headers(1)] = nodes(3)
    /\ loaded.dlx.down[nodes(1)] = nodes(3)


\* index of the column a header stands for
ColumnOf(h) == -h - 2

\* the rows of m as circular left-right lists: row i is nodes[row_off[i] ..
\* row_off[i+1]-1], each linked to the next and the last to the first, in
\* ascending column order
RowsCircular(m) ==
    \A i \in 0 .. m.n_row - 1 :
        LET a == m.row_off[i]
            b == m.row_off[i + 1] - 1
        IN  \A j \in a .. b :
                /\ m.right[nodes(j)] = nodes(IF j = b THEN a ELSE j + 1)
                /\ m.left[nodes(j)] = nodes(IF j = a THEN b ELSE j - 1)
                /\ j < b => ColumnOf(m.header[nodes(j)]) < ColumnOf(m.header[nodes(j + 1)])

\* C26: after the build the nodes of each non-empty row form a circular
\* left-right list of exactly that row's nodes in ascending column order
\* (a single node links to itself), and no later operation changes the
\* left or right field, the header or the row_id of a data node.
C26_RowsUntouched ==
    LET fresh == Built
    IN  /\ RowsCircular(fresh)
        /\ \A x \in DataNodes :
              /\ dlx.left[x] = fresh.left[x]
              /\ dlx.right[x] = fresh.right[x]
              /\ dlx.header[x] = fresh.header[x]
              /\ dlx.row_id[x] = fresh.row_id[x]

\* a search is running below a preselected row; a row of three nodes and
\* a row of one node exist
C26_Witness ==
    /\ pc = "run" /\ Len(stack) >= 2
    /\ forced # << >>
    /\ \E i \in DOMAIN rows : Cardinality(rows[i]) = 3
    /\ \E i \in DOMAIN rows : Cardinality(rows[i]) = 1
    /\ dlx.right[root] # headers(0)


\* the live headers in the order met walking right from h to the root
RECURSIVE RightSeq(_, _, _)
RightSeq(m, h, fuel) ==
    IF h = root \/ fuel = 0 THEN << >> ELSE <<h>> \o RightSeq(m, m.right[h], fuel - 1)

\* col is the first of the columns of m that have the fewest live nodes
FirstMinimal(m, col) ==
    LET live == RightSeq(m, m.right[root], Fuel(m))
    IN  \E p \in 1 .. Len(live) :
            /\ live[p] = col
            /\ \A q \in 1 .. Len(live) : LiveCount(m, col) <= LiveCount(m, live[q])
            /\ \A q \in 1 .. p - 1 : LiveCount(m, col) < LiveCount(m, live[q])

\* a level is entered with a live column and branches
Branches ==
    /\ pc = "run" /\ Top.at = "entry" /\ dlx.right[root] # root
    /\ pc' = "run"

\* the level that has just branched on an empty column returns 0
ReturnsZero ==
    /\ Len(stack') = Len(stack) - 1
    /\ IF Len(stack) = 1
       THEN pc' = "done" /\ retval' = 0
       ELSE stack'[Len(stack')].at = "after" /\ stack'[Len(stack')].n = 0

\* C27: a level with at least one live column branches on a live column
\* with the fewest live data nodes, the first such column walking right
\* from the root; when that column has no live node the level tries no row
\* and returns 0.
C27_MinColumn ==
    [][/\ Branches => FirstMinimal(dlx, stack'[Len(stack')].col)
       /\ (JustBranched /\ dlx.down[Top.col] = Top.col) => ReturnsZero]_vars



\* the headers still in the header list, and the data nodes still in the
\* column list of one of them
LiveHeaders(m) ==
    LET live == RightSeq(m, m.right[root], Fuel(m))
    IN  {live[p] : p \in 1 .. Len(live)}

LiveNodes(m) ==
    UNION {LET col == DownSeq(m, h, m.down[h], Fuel(m))
           IN  {col[p] : p \in 1 .. Len(col)} : h \in LiveHeaders(m)}

\* a and b have the same links and the same counts
SameLinks(a, b) ==
    /\ ~IsHung(a) /\ ~IsHung(b)
    /\ a.left = b.left /\ a.right = b.right
    /\ a.up = b.up /\ a.down = b.down
    /\ a.node_count = b.node_count

\* C28: in every state of a search or a preselection, uncover(h) right
\* after cover(h) restores every link and every node_count, for each live
\* header h, and uncover_other_columns(i) right after cover_other_columns(i)
\* does so for each live data node i.
C28_CoverUncover ==
    ~IsHung(dlx) =>
        LET m == dlx
        IN  /\ \A h \in LiveHeaders(m) :
                LET c == cover(m, h)
                IN  ~IsHung(c) /\ SameLinks(uncover(c, h), m)
            /\ \A i \in LiveNodes(m) :
                LET c == cover_other_columns(m, i)
                IN  ~IsHung(c) /\ SameLinks(uncover_other_columns(c, i), m)


\* the nodes of the row of i met walking right from j until i comes back
RECURSIVE RowSeq(_, _, _, _)
RowSeq(m, i, j, fuel) ==
    IF j = i \/ fuel = 0 THEN << >> ELSE <<j>> \o RowSeq(m, i, m.right[j], fuel - 1)

Column(m, h) == DownSeq(m, h, m.down[h], Fuel(m))

Without(s, x) == SelectSeq(s, LAMBDA y : y # x)

Members(s) == {s[p] : p \in 1 .. Len(s)}

\* what cover(h) has done when it turns m into c
Covered(m, c, h) ==
    LET before == RightSeq(m, m.right[root], Fuel(m))
        after == RightSeq(c, c.right[root], Fuel(c))
        gone == UNION {{i} \cup Members(RowSeq(m, i, m.right[i], Fuel(m))) :
                          i \in Members(Column(m, h))}
    IN  /\ after = Without(before, h)
        /\ \A g \in Members(after) : Members(Column(c, g)) \cap gone = {}
        /\ Column(c, h) = Column(m, h)
        /\ UpSeq(c, h, c.up[h], Fuel(c)) = UpSeq(m, h, m.up[h], Fuel(m))
        /\ \A g \in DOMAIN m.node_count \ {h, root} :
               c.node_count[g] =
                   m.node_count[g] - (Len(Column(m, g)) - Len(Column(c, g)))

\* C29: cover(h) on a live column h takes h out of the header list and
\* leaves the other live headers in their order; no node of a row with a
\* live node in column h can be reached walking down from another live
\* header; the column list of h is as before; every other column's
\* node_count has gone down by the number of nodes it has lost.
C29_CoverEffects ==
    ~IsHung(dlx) =>
        \A h \in LiveHeaders(dlx) :
            LET c == cover(dlx, h)
            IN  ~IsHung(c) /\ Covered(dlx, c, h)


\* the rows of the nodes in s have two nodes or more and no column in common
DisjointRows(s) ==
    /\ \A p \in 1 .. Len(s) : Cardinality(rows[RowOf(dlx, s[p])]) >= 2
    /\ \A p, q \in 1 .. Len(s) :
           p # q => rows[RowOf(dlx, s[p])] \cap rows[RowOf(dlx, s[q])] = {}

\* every call before the last one was a dlx_force_row that returned 0
OnlyForcedSoFar == Len(last.fb) = ncalls - 1

\* C30: on a freshly built matrix, dlx_force_row of rows r1..rn that have
\* two nodes or more each and pairwise no column in common returns 0 every
\* time, the dlx_unselect_row of rn that follows returns 0, and when all
\* the rows have been unselected in reverse order every link and every
\* node_count is as in the fresh matrix.
C30_ForceThenUnselect ==
    /\ (last.op = "force" /\ OnlyForcedSoFar
            /\ DisjointRows(Append(last.fb, last.r)))
           => last.ret = 0
    /\ (last.op = "unselect" /\ OnlyForcedSoFar /\ last.fb # << >>
            /\ DisjointRows(last.fb)
            /\ RowOf(dlx, last.r) = RowOf(dlx, last.fb[Len(last.fb)]))
           => /\ last.ret = 0
              /\ Len(last.fb) = 1 => SameLinks(dlx, Built)


\* the frames of the levels that write solution[k]: those past the entry
\* test, and the top one when it is about to branch
Writes(f) ==
    \/ stack[f].at \in {"loop", "after"}
    \/ f = Len(stack) /\ stack[f].at = "entry" /\ dlx.right[root] # root

\* C31: on a matrix from the loader every k at which dlx_exact_cover writes
\* solution[k] is below the number of columns and below the number of
\* rows, so the array of n_row records of the test driver is never written
\* out of bounds and the recursion is never deeper than min(R, C).
C31_DepthBound ==
    /\ pc # "hung"
    /\ pc = "run" =>
           /\ \A f \in 1 .. Len(stack) :
                  Writes(f) => stack[f].k < dlx.n_col /\ stack[f].k < dlx.n_row
           /\ \A f \in 1 .. Len(stack) :
                  stack[f].k <= dlx.n_col /\ stack[f].k <= dlx.n_row

\* the last record of the array is written: k = R - 1 = C - 1 with three
\* rows and three columns
C31_Witness ==
    /\ pc = "run" /\ Top.at = "loop"
    /\ dlx.n_row = 3 /\ dlx.n_col = 3
    /\ Top.k = 2


\* ------------------------------------------------------------------------
\* Termination of the search: a call that has started keeps running, one
\* step of dlx_exact_cover after the other, until it returns
\* ------------------------------------------------------------------------
Step == Leaf \/ Branch \/ Try \/ Exhaust \/ ResumeNext \/ ResumeBreak

\* The matrices of up to MaxLiveR rows and MaxLiveC columns
InitLive ==
    \E R \in 0 .. MaxLiveR, C \in 0 .. MaxLiveC :
        /\ R = 0 => C = 0
        /\ \E rs \in [0 .. R - 1 -> SUBSET (0 .. C - 1)] : Loaded(rs, C)
        /\ stream = NoStream /\ darray = NoArray

NextLive ==
    \/ \E M \in 1 .. MaxLiveSol : Call(M)
    \/ Step
    \/ Finish

\* a step of the running call: each of them changes the stack
Moves == pc = "run" /\ stack' # stack

\* Weak fairness of Step, written out: Step is enabled exactly while a
\* call runs (pc = "run"), so WF_vars(Step) says that a call does not stay
\* running for ever without a step being taken.
Progress == []<>(pc # "run") \/ []<><<Moves>>_vars

SpecLive == InitLive /\ [][NextLive]_vars /\ Progress

\* one more row is tried: a level is entered below the top one
TriesRow == Len(stack') > Len(stack)

\* the top level returns with every row of its column tried
TreeExhausted == pc = "run" /\ Len(stack) = 1 /\ Top.at = "loop" /\ dlx.down[Top.i] = Top.col

\* C32: a call of dlx_exact_cover with *pnsol >= 1 on a built matrix
\* returns; once *pnsol is 0 no level tries a further row, and a call that
\* returns with *pnsol not 0 has tried every branch.
C32_Returns ==
    /\ (pc = "run") ~> (pc = "done")
    /\ [][(pc = "run" /\ pnsol = 0) => ~TriesRow]_vars
    /\ [][(pc = "run" /\ pc' = "done" /\ pnsol' # 0)
              => (TreeExhausted \/ (Len(stack) = 1 /\ Top.at = "entry"))]_vars

\* *pnsol has reached 0 at a level whose column has a row not yet tried
C32_Witness ==
    /\ pc = "run" /\ pnsol = 0
    /\ Top.at = "after" /\ Top.k >= 1
    /\ dlx.down[Top.i] # Top.col


\* ------------------------------------------------------------------------
\* Algorithm X on sets: the reference search.  ch is the set of rows chosen
\* so far; a column is live while no chosen row has a 1 in it, a row while
\* it shares no column with a chosen row.
\* ------------------------------------------------------------------------
Taken(ch) == UNION {rows[r] : r \in ch}

RefCols(ch) == (0 .. dlx.n_col - 1) \ Taken(ch)

RefRows(ch) == {r \in DOMAIN rows : rows[r] \cap Taken(ch) = {}}

\* the live rows that hold a 1
RefRowsWithOnes(ch) == {r \in RefRows(ch) : rows[r] # {}}

RefCount(ch, c) == Cardinality({r \in RefRows(ch) : c \in rows[r]})

\* the leftmost live column with the fewest live rows
RefBranch(ch) ==
    CHOOSE c \in RefCols(ch) :
        \A e \in RefCols(ch) :
            \/ RefCount(ch, c) < RefCount(ch, e)
            \/ RefCount(ch, c) = RefCount(ch, e) /\ c <= e

\* the live rows of column c in ascending row index
RefColumn(ch, c) == SortedSeq({r \in RefRows(ch) : c \in rows[r]})

\* the row sets at the leaf successes below ch, in the order reached
RECURSIVE RefLeaves(_)
RECURSIVE RefLeavesFrom(_, _, _)
RefLeavesFrom(ch, try, p) ==
    IF p > Len(try) THEN << >>
    ELSE RefLeaves(ch \cup {try[p]}) \o RefLeavesFrom(ch, try, p + 1)

RefLeaves(ch) ==
    IF RefCols(ch) = {} THEN <<ch>>
    ELSE RefLeavesFrom(ch, RefColumn(ch, RefBranch(ch)), 1)

\* the rows chosen at the levels above level d
ChosenAbove(d) == {RowOf(dlx, stack[e].i) : e \in 1 .. d - 1}

\* the live columns and rows as the links give them
LinkCols(m) == {ColumnOf(h) : h \in LiveHeaders(m)}

LinkRows(m) == {RowOf(m, i) : i \in LiveNodes(m)}

LinkColumn(m, c) ==
    LET col == Column(m, headers(c))
    IN  [p \in 1 .. Len(col) |-> RowOf(m, col[p])]

\* the search and the reference with live rows LR agree: same leaves in
\* the same order, same branching column and a row of it at every level
\* above, same live columns and rows at the entry of the top level
Refines(LR(_)) ==
    LET ref == RefLeaves({})
        n == Len(leaves)
    IN  /\ n <= Len(ref) /\ leaves = SubSeq(ref, 1, n)
        /\ pc = "done" => (n = M0 \/ (n < M0 /\ n = Len(ref)))
        /\ pc = "run" =>
               \A d \in 1 .. Len(stack) - 1 :
                   LET c == RefBranch(ChosenAbove(d))
                   IN  /\ stack[d].col = headers(c)
                       /\ \E p \in 1 .. Len(RefColumn(ChosenAbove(d), c)) :
                              RefColumn(ChosenAbove(d), c)[p] = RowOf(dlx, stack[d].i)
        /\ (pc = "run" /\ Top.at = "entry") =>
               /\ LinkCols(dlx) = RefCols(Chosen)
               /\ LinkRows(dlx) = LR(Chosen)
               /\ \A c \in LinkCols(dlx) : LinkColumn(dlx, c) = RefColumn(Chosen, c)

\* C33 as stated: the reference's live rows are all the rows that share no
\* column with a chosen row.
C33_AsClaimed == pc \in {"run", "done"} => Refines(RefRows)

\* C33: the search is Algorithm X on sets: the row sets at its leaves are
\* those of the reference search, in the same order; it branches on the
\* reference's column and tries that column's rows; at every recursion
\* entry the live columns read from the links are the reference's, and the
\* live rows read from the links are the reference's live rows that hold a
\* 1 (a row without a 1 has no node).
C33_Refinement == pc \in {"run", "done"} => Refines(RefRowsWithOnes)

\* a level is entered two rows deep after a first leaf, on a matrix whose
\* first branching column is not the leftmost one
C33_Witness ==
    /\ pc = "run" /\ Top.at = "entry" /\ Len(stack) = 3
    /\ Len(leaves) >= 1
    /\ dlx.n_col > 0 /\ RefBranch({}) # 0
    /\ LinkRows(dlx) # {}


\* node_count of h less the data nodes linked in the column list of h
CountOffset(m, h) == m.node_count[h] - LiveCount(m, h)

\* C34: in every state reached by the build, dlx_exact_cover and calls of
\* dlx_force_row / dlx_unselect_row that returned 0 in LIFO order, the
\* node_count of every column header exceeds the number of data nodes
\* linked in its column by the same constant, the 1 of the build, and no
\* node_count is below that constant.
C34_CountOffset ==
    (pc # "hung" /\ lifo) =>
        /\ \A h \in Headers : CountOffset(dlx, h) = 1
        /\ \A h \in Headers : dlx.node_count[h] >= 1


\* ------------------------------------------------------------------------
\* The loader's two arrays: size_t_darray_create(512) for col_ind and
\* size_t_darray_create(256) for row_ptr, appends one after the other with
\* no allocation failing, and the trim that ends the reading.  The values
\* appended have no part in the sizes; they alternate over 0 .. MaxVal.
\* ------------------------------------------------------------------------
InitLoaderArray ==
    /\ Loaded(<< >>, 0)
    /\ stream = NoStream
    /\ \E cap \in {ColIndInitial, RowPtrInitial} :
          darray = [cap |-> cap, array |-> size_t_darray_create(cap),
                    vals |-> << >>, calls |-> 0, oob |-> FALSE,
                    trimmed |-> FALSE]

loader_append ==
    /\ darray.calls < MaxLoaderAppends
    /\ ~darray.oob /\ ~darray.trimmed
    /\ LET val == darray.calls % (MaxVal + 1)
           a == size_t_darray_append(darray.array, val, FALSE)
       IN  darray' = [darray EXCEPT !.array = a.array,
                                    !.vals = Append(@, val),
                                    !.calls = @ + 1,
                                    !.oob = ~a.inside]
    /\ UNCHANGED <<rows, dlx, pc, stack, pnsol, solution, retval, M0, pre,
                   leaves, prev, forced, lifo, last, ncalls, stream, loaded>>

loader_trim ==
    /\ ~darray.oob /\ ~darray.trimmed
    /\ darray' = [darray EXCEPT
                     !.array = size_t_darray_trim(darray.array, FALSE).array,
                     !.trimmed = TRUE]
    /\ UNCHANGED <<rows, dlx, pc, stack, pnsol, solution, retval, M0, pre,
                   leaves, prev, forced, lifo, last, ncalls, stream, loaded>>

NextLoaderArray == loader_append \/ loader_trim

SpecLoaderArray == InitLoaderArray /\ [][NextLoaderArray]_vars

\* C35: with the loader's capacities and no allocation failing, every
\* append stores data[i_next] inside the bytes last asked of calloc or
\* realloc, and after every append and after the trim
\* sz_cur = i_next * sizeof(size_t) <= sz_max.
C35_LoaderArrays ==
    /\ ~darray.oob
    /\ darray.array.data = darray.vals
    /\ darray.array.sz_cur = darray.array.i_next * SizeofSizeT
    /\ darray.array.sz_cur <= darray.array.sz_max
    /\ darray.array.sz_cur <= darray.array.alloc

\* the array has grown to a size that is no multiple of sizeof(size_t),
\* grown again from there, and has been trimmed
C35_Witness ==
    /\ darray.trimmed
    /\ darray.array.i_next > darray.cap
    /\ darray.array.sz_cur > 2916
    /\ darray.cap = RowPtrInitial


\* n is not met walking down the column list of its header
OutOfColumn(m, n) == n \notin Members(Column(m, m.header[n]))

\* C36: in every state reached by the build, dlx_exact_cover and
\* dlx_force_row / dlx_unselect_row calls in LIFO order, no data node is
\* half in its column list (n.up.down != n exactly when n.down.up != n),
\* and is_removed_ud(n) holds exactly for the nodes that are out of their
\* column list.
C36_NoHalfRemoved ==
    (pc # "hung" /\ lifo) =>
        \A n \in DataNodes :
            /\ (dlx.down[dlx.up[n]] # n) <=> (dlx.up[dlx.down[n]] # n)
            /\ is_removed_ud(dlx, n) <=> OutOfColumn(dlx, n)

====
